---- MODULE Spec2Model ----
(***************************************************************************)
(* Model of the episode-aggregation route of reveraki                      *)
(* (src/src/app/layout.tsx, lines 32-406): the cache helper getOrSetCache, *)
(* the field merge findEpisodeData and the GET handler with its nested     *)
(* primary / fallback / retry blocks.                                      *)
(*                                                                         *)
(* JavaScript values are represented as follows:                           *)
(*   - strings are TLA+ strings; null and undefined are the two sentinel   *)
(*     strings Null and Undefined, which no payload uses as data;          *)
(*   - arrays are sequences, objects are records;                          *)
(*   - a function that may throw returns [threw |-> BOOLEAN, value |-> _]. *)
(***************************************************************************)
EXTENDS Integers, Sequences, FiniteSets, TLC

\* ------------------------------------------------------------------------
\* Bounds of the model
\* ------------------------------------------------------------------------
MaxNumber == 4        \* raw episode numbers range over 1..MaxNumber and 11

\* ------------------------------------------------------------------------
\* JavaScript helpers
\* ------------------------------------------------------------------------
Null == "<null>"
Undefined == "<undefined>"

\* x ?? y passes on exactly null and undefined.
Nullish(v) == v = Null \/ v = Undefined

Coalesce(a, b) == IF Nullish(a) THEN b ELSE a

\* Truthiness of a string-or-nullish value: null, undefined and "" are falsy.
Truthy(v) == ~Nullish(v) /\ v # ""

\* String.prototype.startsWith
startsWith(s, prefix) ==
  /\ Len(s) >= Len(prefix)
  /\ SubSeq(s, 1, Len(prefix)) = prefix

\* Array.prototype.find, given the indices of the elements that satisfy the
\* predicate: the first of them, 0 when there is none (find then returns
\* undefined).
FindIndex(satisfying) ==
  IF satisfying = {} THEN 0
  ELSE CHOOSE i \in satisfying : \A j \in satisfying : i <= j

\* Template literal `${n}` of a number.
NumberToString(n) == ToString(n)

\* Template literal `${v}` of a string-or-nullish value.
TemplateString(v) ==
  IF v = Null THEN "null" ELSE IF v = Undefined THEN "undefined" ELSE v

Threw == [threw |-> TRUE, value |-> <<>>]
Returned(v) == [threw |-> FALSE, value |-> v]

\* ------------------------------------------------------------------------
\* findEpisodeData (lines 126-237)
\* ------------------------------------------------------------------------

\* An object is always truthy: the second disjunct of the find predicate at
\* line 139, `episodeImages[0]`, is an element of the array.
ObjectTruthy(o) == TRUE

\* Lines 137-141: the bundle chosen by
\*   episodeImages?.find(d => d.providerId === 'tvdb' || episodeImages[0])
\* as an index into the list, 0 for undefined.
ImageBundleIndex(episodeImages) ==
  IF ~episodeImages.present THEN 0
  ELSE LET list == episodeImages.list
       IN FindIndex({i \in 1..Len(list) :
                       list[i].providerId = "tvdb" \/ ObjectTruthy(list[1])})

\* Lines 135-144: foundImage, as [found |-> BOOLEAN, rec |-> record].
NoRecord == [found |-> FALSE]
FoundImage(episode, episodeImages) ==
  LET b == ImageBundleIndex(episodeImages) IN
  IF b = 0 THEN NoRecord
  ELSE LET data == episodeImages.list[b].data
           i == FindIndex({k \in 1..Len(data) : episode.number = data[k].number})
       IN IF i = 0 THEN NoRecord ELSE [found |-> TRUE, rec |-> data[i]]

\* Lines 147-149 and 197-199: foundMetadata.
FoundMetadata(episode, metadata) ==
  LET metadatas == metadata.metadatas
      i == FindIndex({k \in 1..Len(metadatas) : metadatas[k].number = episode.number})
  IN IF i = 0 THEN NoRecord ELSE [found |-> TRUE, rec |-> metadata.metadatas[i]]

\* Optional chaining  found?.field
Opt(found, field) == IF found.found THEN found.rec[field] ELSE Undefined

\* Lines 167-174 (with image source).
OrdinalTry(n) ==
  IF n = 1 THEN "1st"
  ELSE IF n = 2 THEN "2nd"
  ELSE IF n = 3 THEN "3rd"
  ELSE NumberToString(n) \o "th"

\* Mutant of OrdinalCatch: the suffix chosen from the last digit.
OrdinalCatchLastDigit(n) ==
  IF n % 10 = 1 THEN NumberToString(n) \o "st"
  ELSE IF n % 10 = 2 THEN NumberToString(n) \o "nd"
  ELSE IF n % 10 = 3 THEN NumberToString(n) \o "rd"
  ELSE NumberToString(n) \o "th"

\* Lines 212-219 (catch branch).
OrdinalCatch(n) ==
  IF n = 1 THEN "1st"
  ELSE IF n = 2 THEN "2nd"
  ELSE IF n = 3 THEN "3rd"
  ELSE NumberToString(n) \o "th"

\* Lines 179-181 and 223-225.
AnimeTitle(information) ==
  Coalesce(information.title.english,
    Coalesce(information.title.romaji, information.title.native))

\* The placeholder test of lines 160 and 207.
KeepsRawTitle(episode) == Truthy(episode.title) /\ ~startsWith(episode.title, "EP")

\* Mutant of ImgTry: the cover image tried before the metadata thumbnail.
ImgTryCoverFirst(episode, foundImage, foundMetadata, information) ==
  Coalesce(Opt(foundImage, "img"),
    Coalesce(information.coverImage,
      Coalesce(Opt(foundMetadata, "thumbnail"), episode.img)))

\* Lines 152-156.
ImgTry(episode, foundImage, foundMetadata, information) ==
  Coalesce(Opt(foundImage, "img"),
    Coalesce(Opt(foundMetadata, "thumbnail"),
      Coalesce(information.coverImage, episode.img)))

\* Mutant of TitleTry: the image-source title wins over a real raw title.
TitleTryImageFirst(episode, foundImage, foundMetadata) ==
  Coalesce(Opt(foundImage, "title"),
    IF KeepsRawTitle(episode) THEN episode.title
    ELSE Coalesce(Opt(foundMetadata, "title"),
           "Episode " \o NumberToString(episode.number)))

\* Mutant of TitleTry: the metadata title tried before the image-source title.
TitleTryMetadataFirst(episode, foundImage, foundMetadata) ==
  IF KeepsRawTitle(episode) THEN episode.title
  ELSE Coalesce(Opt(foundMetadata, "title"),
         Coalesce(Opt(foundImage, "title"),
           "Episode " \o NumberToString(episode.number)))

\* Lines 159-164.
TitleTry(episode, foundImage, foundMetadata) ==
  IF KeepsRawTitle(episode) THEN episode.title
  ELSE Coalesce(Opt(foundImage, "title"),
         Coalesce(Opt(foundMetadata, "title"),
           "Episode " \o NumberToString(episode.number)))

\* Mutant of DescriptionTry: the image-source description tried first.
DescriptionTryImageFirst(episode, foundImage, information) ==
  Coalesce(Opt(foundImage, "description"),
    Coalesce(episode.description,
      OrdinalTry(episode.number) \o " Episode of "
        \o TemplateString(AnimeTitle(information))))

\* Lines 175-182.
DescriptionTry(episode, foundImage, information) ==
  Coalesce(episode.description,
    Coalesce(Opt(foundImage, "description"),
      OrdinalTry(episode.number) \o " Episode of "
        \o TemplateString(AnimeTitle(information))))

\* Lines 133-191: the callback of the map in the try block.
MapEpisodeTry(episode, metadata, information, episodeImages) ==
  LET foundImage == FoundImage(episode, episodeImages)
      foundMetadata == FoundMetadata(episode, metadata)
  IN [id |-> episode.id,
      img |-> ImgTry(episode, foundImage, foundMetadata, information),
      title |-> TitleTry(episode, foundImage, foundMetadata),
      description |-> DescriptionTry(episode, foundImage, information),
      number |-> episode.number]

\* Mutant of MapEpisodeCatch: the raw image tried before the metadata
\* thumbnail and the cover image.
MapEpisodeCatchRawImgFirst(episode, metadata, information) ==
  LET foundMetadata == FoundMetadata(episode, metadata)
  IN [id |-> episode.id,
      img |-> Coalesce(episode.img,
                Coalesce(Opt(foundMetadata, "thumbnail"), information.coverImage)),
      title |-> IF KeepsRawTitle(episode) THEN episode.title
                ELSE Coalesce(Opt(foundMetadata, "title"),
                       "Episode " \o NumberToString(episode.number)),
      description |-> Coalesce(episode.description,
                        OrdinalCatch(episode.number) \o " Episode of "
                          \o TemplateString(AnimeTitle(information))),
      number |-> episode.number]

\* Lines 195-235: the callback of the map in the catch block.
MapEpisodeCatch(episode, metadata, information) ==
  LET foundMetadata == FoundMetadata(episode, metadata)
  IN [id |-> episode.id,
      img |-> Coalesce(Opt(foundMetadata, "thumbnail"),
                Coalesce(information.coverImage, episode.img)),
      title |-> IF KeepsRawTitle(episode) THEN episode.title
                ELSE Coalesce(Opt(foundMetadata, "title"),
                       "Episode " \o NumberToString(episode.number)),
      description |-> Coalesce(episode.description,
                        OrdinalCatch(episode.number) \o " Episode of "
                          \o TemplateString(AnimeTitle(information))),
      number |-> episode.number]

\* metadata.metadatas.find throws a TypeError when the metadata payload has
\* no metadatas array; the callback runs only when there is an episode.
MapThrows(episodes, metadata) == episodes # <<>> /\ ~metadata.hasMetadatas

\* Mutant of TryBlock: the list returned in reverse order.
TryBlockReversed(episodes, metadata, information, episodeImages) ==
  IF MapThrows(episodes, metadata) THEN Threw
  ELSE Returned([i \in 1..Len(episodes) |->
                   MapEpisodeTry(episodes[Len(episodes) + 1 - i], metadata,
                                 information, episodeImages)])

\* Lines 132-191: the try block.
TryBlock(episodes, metadata, information, episodeImages) ==
  IF MapThrows(episodes, metadata) THEN Threw
  ELSE Returned([i \in 1..Len(episodes) |->
                   MapEpisodeTry(episodes[i], metadata, information, episodeImages)])

\* Lines 194-236: the catch block.
CatchBlock(episodes, metadata, information) ==
  IF MapThrows(episodes, metadata) THEN Threw
  ELSE Returned([i \in 1..Len(episodes) |->
                   MapEpisodeCatch(episodes[i], metadata, information)])

findEpisodeData(episodes, metadata, information, episodeImages) ==
  LET t == TryBlock(episodes, metadata, information, episodeImages)
  IN IF t.threw THEN CatchBlock(episodes, metadata, information) ELSE t

\* The call without the fourth argument (lines 349-353, 383-387).
NoImages == [present |-> FALSE, list |-> <<>>]
GivenImages(list) == [present |-> TRUE, list |-> list]


\* ------------------------------------------------------------------------
\* JSON.stringify / JSON.parse / NextResponse.json
\* ------------------------------------------------------------------------
\* A JavaScript value handled by getOrSetCache is an array of provider
\* bundles, a NextResponse object, or a plain object.  JSON text is kept as
\* its parsed structure, tagged with the kind of its root.
Array(items) == [t |-> "array", items |-> items]
PlainObject(members) == [t |-> "object", members |-> members]
NoValue == [t |-> "none"]

\* JSON.stringify omits a property whose value is undefined.
StringifyEpisode(e) ==
  IF "img" \in DOMAIN e /\ e.img # Undefined THEN e
  ELSE [f \in (DOMAIN e) \ {"img"} |-> e[f]]

StringifyBundle(b) ==
  [episodes |-> [i \in 1..Len(b.episodes) |-> StringifyEpisode(b.episodes[i])],
   providerId |-> b.providerId]

\* A NextResponse has no own enumerable string-keyed property: it
\* serializes to {}.
JSONstringify(v) ==
  IF v.t = "array"
  THEN [kind |-> "array", items |-> [i \in 1..Len(v.items) |-> StringifyBundle(v.items[i])]]
  ELSE IF v.t = "object"
  THEN [kind |-> "object", members |-> v.members]
  ELSE [kind |-> "object", members |-> <<>>]

JSONparse(s) ==
  IF s.kind = "array" THEN Array(s.items) ELSE PlainObject(s.members)

\* The object literal of lines 301-304, 371-374 and 399-402.
ErrorObject ==
  PlainObject(<<[k |-> "message", v |-> "Internal Server Error"],
                [k |-> "status", v |-> "500"]>>)

\* NextResponse.json(body, {status}): the status defaults to 200.
NextResponseJson(body, status) ==
  [t |-> "NextResponse", status |-> status, body |-> JSONstringify(body)]

\* ------------------------------------------------------------------------
\* Cache facade (@/functions/cache) and getOrSetCache (lines 111-124)
\* ------------------------------------------------------------------------
Ids == {"1", "21"}
Requests == {1, 2}

\* Mutant of cacheKey: the identifier left out of the key.
cacheKeyShared(id) == "episodesData:"

\* Line 241.
cacheKey(id) == "episodesData:" \o id
Keys == {cacheKey(id) : id \in Ids}

\* Line 121: 5 * 60 * 60.
TTL == 5 * 60 * 60

\* The clock advances by half the expiry at a time, MaxTicks times at most.
TickSeconds == TTL \div 2
MaxTicks == 2

\* writer names the request whose cache.set stored the entry (history).
NoEntry == [present |-> FALSE]
Entry(value, expires, writer) ==
  [present |-> TRUE, value |-> value, expires |-> expires, writer |-> writer]

\* cache.get(key): the stored string, or nothing once the entry has expired.
CacheHas(c, key, t) == c[key].present /\ t < c[key].expires
\* cache.set(key, value, ttlSeconds)
CacheSetTo(c, key, value, ttl, t, writer) ==
  [c EXCEPT ![key] = Entry(value, t + ttl, writer)]
\* Expiry managed by the store.
Purge(c, t) == [k \in DOMAIN c |-> IF c[k].present /\ t < c[k].expires THEN c[k] ELSE NoEntry]


\* ------------------------------------------------------------------------
\* Payloads of the external services (the inputs of a request)
\* ------------------------------------------------------------------------
RawEpisode(id, number, title, img, description) ==
  [id |-> id, number |-> number, title |-> title, img |-> img, description |-> description]

ImageRecord(number, img, title, description) ==
  [number |-> number, img |-> img, title |-> title, description |-> description]

MetaRecord(number, title, thumbnail) ==
  [number |-> number, title |-> title, thumbnail |-> thumbnail]

Info(coverImage, english, romaji, native) ==
  [coverImage |-> coverImage,
   title |-> [english |-> english, romaji |-> romaji, native |-> native]]

\* The AnimeData payload; hasMetadatas is FALSE for a body without the
\* metadatas array.
Metadata(metadatas) == [hasMetadatas |-> TRUE, metadatas |-> metadatas]
MalformedMetadata == [hasMetadatas |-> FALSE, metadatas |-> <<>>]

\* GET https://api.anify.tv/content-metadata/<id> (lines 244-247).
ImagePayloads ==
  { <<[providerId |-> "tvdb",
       data |-> <<ImageRecord(1, "tvdb-1.png", "Premiere", Null)>>]>> }

\* GET /api/v1/episodesMetadata/<id> (lines 248-250, 324-326).
MetadataPayloads ==
  { Metadata(<<MetaRecord(2, "Second", "thumb-2.png")>>), MalformedMetadata }

\* GET /api/v1/info/<id> (lines 251-253, 327-329).
InfoPayloads == { Info(Null, Null, "Romaji", "Native") }

\* GET https://api.anify.tv/info/<id>?fields=[episodes] (lines 271-275,
\* 342-346): episodes.data of the response.
PrimaryPayloads ==
  { <<[providerId |-> "zoro",
       episodes |-> <<RawEpisode("z-1", 1, "EP1", Null, Null)>>],
      [providerId |-> "gogoanime",
       episodes |-> <<RawEpisode("g-3", 3, "The Beginning", Undefined, "raw 3")>>]>> }

\* GET <CONSUMET_API>/meta/anilist/episodes/<id> (lines 290-294, 360-364).
ConsumetEpisode(id, number, title, image, description) ==
  [id |-> id, number |-> number, title |-> title, image |-> image,
   description |-> description]

FallbackPayloads ==
  { <<ConsumetEpisode("c-1", 1, "EP 1", "c-1.png", Null),
      ConsumetEpisode("c-2", 2, "Second raw", Null, "raw 2")>> }

\* convertToEpisode (@/functions/utilityFunctions): the fallback provider's
\* episode shape in the canonical Episode shape.
convertToEpisode(c) ==
  RawEpisode(c.id, c.number, c.title, c.image, c.description)

\* consumetEpisodes.map(convertToEpisode) (lines 309, 379).
ConvertAll(consumetEpisodes) ==
  [i \in 1..Len(consumetEpisodes) |-> convertToEpisode(consumetEpisodes[i])]

\* An outcome of an HTTP call: it fails, or it returns a payload.
Failed == [ok |-> FALSE]
Ok(data) == [ok |-> TRUE, wellFormed |-> TRUE, data |-> data]
\* A 2xx response whose body has not the expected shape.
Malformed == [ok |-> TRUE, wellFormed |-> FALSE]
Outcomes(payloads) == {Failed} \cup {Ok(d) : d \in payloads}

\* ------------------------------------------------------------------------
\* State
\* ------------------------------------------------------------------------
VARIABLES
  cache,   \* the key-value store: key -> entry
  now,     \* the store's clock, in seconds
  req,     \* the requests being handled: request -> its locals and position
  m        \* the arguments and the result of one findEpisodeData call

vars == <<cache, now, req, m>>

NoCalls == [images |-> 0, metadata |-> 0, info |-> 0, primary |-> 0, fallback |-> 0,
            cacheGet |-> 0, cacheSet |-> 0]

NoResponse == [status |-> 0, body |-> [kind |-> "none"]]

\* What happened to a step in the first pass and in the retry pass.
Passes == {1, 2}
NoOutcome == [p \in Passes |-> "none"]

IdleRequest ==
  [pc |-> "idle", id |-> "1", pass |-> 0, hit |-> FALSE,
   episodeImages |-> NoImages, episodeMetadata |-> MalformedMetadata,
   information |-> Info(Null, Null, Null, Null),
   anifyEpisodes |-> <<>>, consumetEpisodes |-> <<>>,
   freshData |-> NoValue, cachedEpisodes |-> NoValue,
   response |-> NoResponse,
   \* history of the request, read by the properties only
   aux |-> NoOutcome, primary |-> NoOutcome, fallback |-> NoOutcome,
   source |-> "none", getKey |-> "", setKey |-> "", setTtl |-> 0,
   filler |-> 0, fillerResponse |-> NoResponse, calls |-> NoCalls,
   trace |-> <<>>, responses |-> 0]

NoMerge == [called |-> "none"]

FlowInit ==
  /\ cache = [k \in Keys |-> NoEntry]
  /\ now = 0
  /\ req = [r \in Requests |-> IdleRequest]

Init == FlowInit /\ m = NoMerge

Bump(calls, what) == [calls EXCEPT ![what] = @ + 1]

\* A step of a request, as its trace keeps it (history): the cache lookup,
\* the auxiliary fetches, a provider call, a merge, the cache write, the
\* response; with the pass it belongs to and whether it went through.
Event(e, pass, ok) == [e |-> e, pass |-> pass, ok |-> ok]


\* ------------------------------------------------------------------------
\* GET (lines 239-406), one action per await
\* ------------------------------------------------------------------------

\* Lines 239-241: a request for identifier id arrives.
Receive(r, id) ==
  /\ req[r].pc = "idle"
  /\ req' = [req EXCEPT ![r] = [IdleRequest EXCEPT !.pc = "cacheGet", !.id = id]]
  /\ UNCHANGED <<cache, now, m>>

\* Mutant of CacheGet: the cached value is read but the data is fetched anyway.
CacheGetRefetches(r) ==
  LET q == req[r]
      key == cacheKey(q.id)
      looked == [q EXCEPT !.calls = Bump(@, "cacheGet"), !.getKey = key,
                          !.trace = Append(@, Event("cacheGet", 0, TRUE))]
  IN /\ q.pc = "cacheGet"
     /\ IF CacheHas(cache, key, now)
        THEN req' = [req EXCEPT ![r] =
                       [looked EXCEPT !.hit = TRUE,
                                      !.filler = cache[key].writer,
                                      !.fillerResponse = req[cache[key].writer].response,
                                      !.pass = 1, !.pc = "aux"]]
        ELSE req' = [req EXCEPT ![r] = [looked EXCEPT !.pass = 1, !.pc = "aux"]]
     /\ UNCHANGED <<cache, now, m>>

\* Lines 113-117: cache.get and the hit branch of getOrSetCache.
CacheGet(r) ==
  LET q == req[r]
      key == cacheKey(q.id)
      looked == [q EXCEPT !.calls = Bump(@, "cacheGet"), !.getKey = key,
                          !.trace = Append(@, Event("cacheGet", 0, TRUE))]
  IN /\ q.pc = "cacheGet"
     /\ IF CacheHas(cache, key, now)
        THEN req' = [req EXCEPT ![r] =
                       [looked EXCEPT !.hit = TRUE,
                                      !.cachedEpisodes = JSONparse(cache[key].value),
                                      !.filler = cache[key].writer,
                                      !.fillerResponse = req[cache[key].writer].response,
                                      !.pc = "respond"]]
        ELSE req' = [req EXCEPT ![r] = [looked EXCEPT !.pass = 1, !.pc = "aux"]]
     /\ UNCHANGED <<cache, now, m>>

\* Mutant of AuxFetch: the primary provider is attempted whatever became of
\* the auxiliary fetches.
AuxFetchGoesOn(r) ==
  LET q == req[r] IN
  /\ q.pc = "aux"
  /\ \E im \in Outcomes(ImagePayloads), me \in Outcomes(MetadataPayloads),
        inf \in Outcomes(InfoPayloads) :
       LET called == [q EXCEPT !.calls = Bump(Bump(Bump(@, "images"), "metadata"), "info"),
                               !.trace = Append(@, Event("aux", 1, im.ok /\ me.ok /\ inf.ok))]
       IN req' = [req EXCEPT ![r] =
            [called EXCEPT !.episodeImages = IF im.ok THEN GivenImages(im.data) ELSE NoImages,
                           !.episodeMetadata = IF me.ok THEN me.data ELSE @,
                           !.information = IF inf.ok THEN inf.data ELSE @,
                           !.aux[1] = IF im.ok /\ me.ok /\ inf.ok THEN "fetched" ELSE "threw",
                           !.pc = "primary"]]
  /\ UNCHANGED <<cache, now, m>>

\* Lines 244-268: the three auxiliary fetches of the first pass, awaited
\* together; the rejection of any of them enters the catch of line 323.
AuxFetch(r) ==
  LET q == req[r] IN
  /\ q.pc = "aux"
  /\ \E im \in Outcomes(ImagePayloads), me \in Outcomes(MetadataPayloads),
        inf \in Outcomes(InfoPayloads) :
       LET called == [q EXCEPT !.calls = Bump(Bump(Bump(@, "images"), "metadata"), "info"),
                               !.trace = Append(@, Event("aux", 1, im.ok /\ me.ok /\ inf.ok))]
       IN req' = [req EXCEPT ![r] =
            IF im.ok /\ me.ok /\ inf.ok
            THEN [called EXCEPT !.episodeImages = GivenImages(im.data),
                                !.episodeMetadata = me.data,
                                !.information = inf.data,
                                !.aux[1] = "fetched",
                                !.pc = "primary"]
            ELSE [called EXCEPT !.aux[1] = "threw", !.pc = "retryAux"]]
  /\ UNCHANGED <<cache, now, m>>

\* Mutant of RetryAuxFetch: a failed first pass ends the request, no retry.
RetryAuxFetchGivesUp(r) ==
  /\ req[r].pc = "retryAux"
  /\ req' = [req EXCEPT ![r].pc = "fail"]
  /\ UNCHANGED <<cache, now, m>>

\* Mutant of RetryAuxFetch: the retry pass goes on to the primary provider
\* whatever became of its auxiliary fetches.
RetryAuxFetchGoesOn(r) ==
  LET q == req[r] IN
  /\ q.pc = "retryAux"
  /\ \E me \in Outcomes(MetadataPayloads), inf \in Outcomes(InfoPayloads) :
       LET called == [q EXCEPT !.calls = Bump(Bump(@, "metadata"), "info"),
                               !.pass = 2, !.episodeImages = NoImages,
                               !.anifyEpisodes = <<>>, !.consumetEpisodes = <<>>,
                               !.trace = Append(@, Event("aux", 2, me.ok /\ inf.ok))]
       IN req' = [req EXCEPT ![r] =
            [called EXCEPT !.episodeMetadata = IF me.ok THEN me.data ELSE @,
                           !.information = IF inf.ok THEN inf.data ELSE @,
                           !.aux[2] = IF me.ok /\ inf.ok THEN "fetched" ELSE "threw",
                           !.pc = "primary"]]
  /\ UNCHANGED <<cache, now, m>>

\* Lines 324-339: the two auxiliary fetches of the retry pass; a rejection
\* leaves fetchData and getOrSetCache and is caught at line 396.
RetryAuxFetch(r) ==
  LET q == req[r] IN
  /\ q.pc = "retryAux"
  /\ \E me \in Outcomes(MetadataPayloads), inf \in Outcomes(InfoPayloads) :
       LET called == [q EXCEPT !.calls = Bump(Bump(@, "metadata"), "info"),
                               !.pass = 2, !.episodeImages = NoImages,
                               !.anifyEpisodes = <<>>, !.consumetEpisodes = <<>>,
                               !.trace = Append(@, Event("aux", 2, me.ok /\ inf.ok))]
       IN req' = [req EXCEPT ![r] =
            IF me.ok /\ inf.ok
            THEN [called EXCEPT !.episodeMetadata = me.data,
                                !.information = inf.data,
                                !.aux[2] = "fetched",
                                !.pc = "primary"]
            ELSE [called EXCEPT !.aux[2] = "threw", !.pc = "fail"]]
  /\ UNCHANGED <<cache, now, m>>

\* Lines 277-286 and 348-356: one bundle per bundle of the primary response.
\* Mutant of PrimaryProviderId: the source's providerId passed through.
PrimaryProviderIdRaw(providerId) == providerId

PrimaryProviderId(providerId) == IF providerId = "zoro" THEN "anirise" ELSE "anizone"

PrimaryBundles(data, metadata, information, episodeImages) ==
  LET merged == [i \in 1..Len(data) |->
                   findEpisodeData(data[i].episodes, metadata, information, episodeImages)]
  IN IF \E i \in 1..Len(data) : merged[i].threw THEN Threw
     ELSE Returned([i \in 1..Len(data) |->
                      [episodes |-> merged[i].value,
                       providerId |-> PrimaryProviderId(data[i].providerId)]])

\* Lines 270-287 and 341-357: the primary provider; whatever the try block
\* throws is caught and leads to the fallback provider.
PrimaryFetch(r) ==
  LET q == req[r] IN
  /\ q.pc = "primary"
  /\ \E out \in Outcomes(PrimaryPayloads) \cup {Malformed} :
       LET res == IF out.ok /\ out.wellFormed
                  THEN PrimaryBundles(out.data, q.episodeMetadata, q.information,
                                      q.episodeImages)
                  ELSE Threw
           events == IF out.ok /\ out.wellFormed
                     THEN <<Event("primary", q.pass, TRUE),
                            Event("merge", q.pass, ~res.threw)>>
                     ELSE <<Event("primary", q.pass, FALSE)>>
           called == [q EXCEPT !.calls = Bump(@, "primary"), !.trace = @ \o events]
       IN req' = [req EXCEPT ![r] =
            IF ~out.ok
            THEN [called EXCEPT !.primary[q.pass] = "callThrew", !.pc = "fallback"]
            ELSE IF ~out.wellFormed
            THEN [called EXCEPT !.primary[q.pass] = "shapeThrew", !.pc = "fallback"]
            ELSE IF res.threw
            THEN [called EXCEPT !.anifyEpisodes = out.data,
                                !.primary[q.pass] = "mergeThrew", !.pc = "fallback"]
            ELSE [called EXCEPT !.anifyEpisodes = out.data,
                                !.primary[q.pass] = "merged",
                                !.freshData = Array(res.value),
                                !.source = "primary",
                                !.pc = "cacheSet"]]
  /\ UNCHANGED <<cache, now, m>>

\* Mutant of FallbackBundles: the converted episodes returned unmerged.
FallbackBundlesUnmerged(consumetEpisodes, metadata, information, episodeImages) ==
  Returned(<<[episodes |-> ConvertAll(consumetEpisodes),
              providerId |-> "anizone"]>>)

\* Lines 311-321 and 381-390.
FallbackBundles(consumetEpisodes, metadata, information, episodeImages) ==
  LET convertedEpisodes == ConvertAll(consumetEpisodes)
      merged == findEpisodeData(convertedEpisodes, metadata, information, episodeImages)
  IN IF merged.threw THEN Threw
     ELSE Returned(<<[episodes |-> merged.value, providerId |-> "anizone"]>>)

\* Mutant of FallbackFetch: a fallback call that throws is tried again.
FallbackFetchRetries(r) ==
  LET q == req[r] IN
  /\ q.pc = "fallback"
  /\ \E out \in Outcomes(FallbackPayloads) :
       LET res == IF out.ok
                  THEN FallbackBundles(out.data, q.episodeMetadata, q.information,
                                       q.episodeImages)
                  ELSE Threw
           called == [q EXCEPT !.calls = Bump(@, "fallback"),
                               !.trace = Append(@, Event("fallback", q.pass, out.ok))]
       IN req' = [req EXCEPT ![r] =
            IF ~out.ok
            THEN IF q.calls.fallback < 3
                 THEN [called EXCEPT !.fallback[q.pass] = "callThrew"]
                 ELSE [called EXCEPT !.fallback[q.pass] = "callThrew", !.pc = "fail"]
            ELSE IF res.threw
            THEN [called EXCEPT !.consumetEpisodes = out.data,
                                !.fallback[q.pass] = "mergeThrew",
                                !.pc = IF q.pass = 1 THEN "retryAux" ELSE "fail"]
            ELSE [called EXCEPT !.consumetEpisodes = out.data,
                                !.fallback[q.pass] = "merged",
                                !.freshData = Array(res.value),
                                !.source = "fallback",
                                !.pc = "cacheSet"]]
  /\ UNCHANGED <<cache, now, m>>

\* Lines 288-322 and 358-391: the fallback provider.  When its call throws,
\* fetchData RETURNS NextResponse.json({...}, {status: 500}) (lines 300-306,
\* 370-376).  An exception of the merge is outside the inner try: in the
\* first pass the catch of line 323 takes it, in the retry pass line 396.
FallbackFetch(r) ==
  LET q == req[r] IN
  /\ q.pc = "fallback"
  /\ \E out \in Outcomes(FallbackPayloads) :
       LET res == IF out.ok
                  THEN FallbackBundles(out.data, q.episodeMetadata, q.information,
                                       q.episodeImages)
                  ELSE Threw
           events == IF out.ok
                     THEN <<Event("fallback", q.pass, TRUE),
                            Event("merge", q.pass, ~res.threw)>>
                     ELSE <<Event("fallback", q.pass, FALSE)>>
           called == [q EXCEPT !.calls = Bump(@, "fallback"), !.trace = @ \o events]
       IN req' = [req EXCEPT ![r] =
            IF ~out.ok
            THEN [called EXCEPT !.fallback[q.pass] = "callThrew",
                                !.freshData = NextResponseJson(ErrorObject, 500),
                                !.source = "error",
                                !.pc = "cacheSet"]
            ELSE IF res.threw
            THEN [called EXCEPT !.consumetEpisodes = out.data,
                                !.fallback[q.pass] = "mergeThrew",
                                !.pc = IF q.pass = 1 THEN "retryAux" ELSE "fail"]
            ELSE [called EXCEPT !.consumetEpisodes = out.data,
                                !.fallback[q.pass] = "merged",
                                !.freshData = Array(res.value),
                                !.source = "fallback",
                                !.pc = "cacheSet"]]
  /\ UNCHANGED <<cache, now, m>>

\* Mutant of CacheSet: an entry that is already there is left alone (the
\* first write wins).
CacheSetIfAbsent(r) ==
  LET q == req[r]
      key == cacheKey(q.id)
  IN /\ q.pc = "cacheSet"
     /\ cache' = IF CacheHas(cache, key, now) THEN cache
                 ELSE CacheSetTo(cache, key, JSONstringify(q.freshData), TTL, now, r)
     /\ req' = [req EXCEPT ![r] =
                  [q EXCEPT !.cachedEpisodes = q.freshData,
                            !.calls = Bump(@, "cacheSet"),
                            !.setKey = key, !.setTtl = TTL,
                            !.trace = Append(@, Event("cacheSet", q.pass, TRUE)),
                            !.pc = "respond"]]
     /\ UNCHANGED <<now, m>>

\* Lines 120-122: whatever fetchData returned is serialized, stored under
\* the key with the fixed expiry, and returned.
CacheSet(r) ==
  LET q == req[r]
      key == cacheKey(q.id)
  IN /\ q.pc = "cacheSet"
     /\ cache' = CacheSetTo(cache, key, JSONstringify(q.freshData), TTL, now, r)
     /\ req' = [req EXCEPT ![r] =
                  [q EXCEPT !.cachedEpisodes = q.freshData,
                            !.calls = Bump(@, "cacheSet"),
                            !.setKey = key, !.setTtl = TTL,
                            !.trace = Append(@, Event("cacheSet", q.pass, TRUE)),
                            !.pc = "respond"]]
     /\ UNCHANGED <<now, m>>

\* The response handed to the caller.
Response(nextResponse) == [status |-> nextResponse.status, body |-> nextResponse.body]

\* A request that was served from an entry learns what the request that
\* filled the entry returned, once that request responds (history).
Learn(q, r, response) ==
  IF q.hit /\ q.filler = r /\ q.fillerResponse = NoResponse
  THEN [q EXCEPT !.fillerResponse = response]
  ELSE q

\* Line 395.
Respond(r) ==
  LET q == req[r]
      response == Response(NextResponseJson(q.cachedEpisodes, 200))
  IN /\ q.pc = "respond"
     /\ req' = [x \in Requests |->
                  IF x = r THEN [q EXCEPT !.response = response,
                                          !.responses = @ + 1,
                                          !.trace = Append(@, Event("respond", q.pass, TRUE)),
                                          !.pc = "done"]
                  ELSE Learn(req[x], r, response)]
     /\ UNCHANGED <<cache, now, m>>

\* Mutant of RespondError: the error is swallowed and nothing is returned.
RespondErrorNever(r) ==
  /\ req[r].pc = "fail"
  /\ UNCHANGED <<cache, now, req, m>>

\* Lines 396-404.
RespondError(r) ==
  LET q == req[r] IN
  /\ q.pc = "fail"
  /\ req' = [req EXCEPT ![r] =
               [q EXCEPT !.response = Response(NextResponseJson(ErrorObject, 500)),
                         !.responses = @ + 1,
                         !.trace = Append(@, Event("respond", q.pass, FALSE)),
                         !.pc = "done"]]
  /\ UNCHANGED <<cache, now, m>>

\* Time passes in the store; entries past their expiry are gone.
Tick ==
  /\ now + TickSeconds <= MaxTicks * TickSeconds
  /\ now' = now + TickSeconds
  /\ cache' = Purge(cache, now')
  /\ UNCHANGED <<req, m>>

\* ------------------------------------------------------------------------
\* findEpisodeData on its own: the arguments are drawn from bounded sets
\* ------------------------------------------------------------------------
Numbers == (1..MaxNumber) \cup {11}

RawTitles == {Null, "", "EP1", "E", "The Beginning"}

RawEpisodes ==
  { RawEpisode("id-" \o ToString(n), n, t, i, d) :
      n \in Numbers, t \in RawTitles, i \in {Null, "raw.png"}, d \in {Null, "raw desc"} }

PairedEpisodes ==
  { RawEpisode("p-1", 1, "EP1", Null, Null),
    RawEpisode("p-2", 2, "Second raw", "raw-2.png", "raw desc 2") }

EpisodeLists ==
  {<<>>} \cup { <<e>> : e \in RawEpisodes }
         \cup { <<e1, e2>> : e1 \in PairedEpisodes, e2 \in PairedEpisodes }

MetaRecords ==
  { MetaRecord(1, t, th) : t \in {Null, "Meta title"}, th \in {Null, "thumb.png"} }

MetadataValues ==
  {MalformedMetadata, Metadata(<<>>)}
    \cup { Metadata(<<r>>) : r \in MetaRecords }
    \cup { Metadata(<<MetaRecord(2, "Meta two", "thumb-2.png"),
                      MetaRecord(1, "Meta one", "thumb-1.png")>>),
           Metadata(<<MetaRecord(1, Null, Null),
                      MetaRecord(1, "Meta late", "thumb-late.png")>>) }

ImageRecords ==
  { ImageRecord(1, i, t, d) :
      i \in {Null, "image.png"}, t \in {Null, "Premiere"}, d \in {Null, "image desc"} }

ImageBundle(providerId, data) == [providerId |-> providerId, data |-> data]

ImageLists ==
  {<<>>, <<ImageBundle("tvdb", <<>>)>>}
    \cup { <<ImageBundle("tvdb", <<rec>>)>> : rec \in ImageRecords }
    \cup { <<ImageBundle("tvdb", <<ImageRecord(2, "image-2.png", "Two", "image desc 2"),
                                   ImageRecord(1, "image-1.png", Null, Null)>>)>> }
    \cup { <<ImageBundle("anilist", d1), ImageBundle("tvdb", d2)>> :
             d1 \in {<<>>, <<ImageRecord(1, "anilist-1.png", "Anilist one", Null)>>},
             d2 \in {<<>>, <<ImageRecord(1, "tvdb-1.png", "Tvdb one", "tvdb desc")>>} }

InfoValues ==
  { Info(c, t[1], t[2], t[3]) :
      c \in {Null, "cover.png"},
      t \in { <<"English", "Romaji", "Native">>, <<Null, "Romaji", "Native">>,
              <<Null, Null, "Native">>, <<"English", Null, Null>>,
              <<Null, Null, Null>> } }

MergeInit ==
  /\ FlowInit
  /\ m \in [called : {"ready"}, episodes : EpisodeLists, metadata : MetadataValues,
             information : InfoValues, episodeImages : ImageLists,
             result : {Returned(<<>>)}]

\* The call of lines 278-283 and 313-318.
CallWithImages ==
  /\ m.called = "ready"
  /\ m' = [m EXCEPT !.called = "withImages",
                    !.result = findEpisodeData(m.episodes, m.metadata, m.information,
                                               GivenImages(m.episodeImages))]
  /\ UNCHANGED <<cache, now, req>>

\* The call of lines 349-353 and 383-387.
CallWithoutImages ==
  /\ m.called = "ready"
  /\ m' = [m EXCEPT !.called = "withoutImages",
                    !.result = findEpisodeData(m.episodes, m.metadata, m.information,
                                               NoImages)]
  /\ UNCHANGED <<cache, now, req>>

\* The catch block of lines 194-236 taken on the same arguments.
RunCatchBlock ==
  /\ m.called = "ready"
  /\ m' = [m EXCEPT !.called = "catchBlock",
                    !.result = CatchBlock(m.episodes, m.metadata, m.information)]
  /\ UNCHANGED <<cache, now, req>>

MergeNext == CallWithImages \/ CallWithoutImages \/ RunCatchBlock

MergeSpec == MergeInit /\ [][MergeNext]_vars

Next ==
  \/ \E r \in Requests, id \in Ids : Receive(r, id)
  \/ \E r \in Requests : CacheGet(r)
  \/ \E r \in Requests : AuxFetch(r)
  \/ \E r \in Requests : RetryAuxFetch(r)
  \/ \E r \in Requests : PrimaryFetch(r)
  \/ \E r \in Requests : FallbackFetch(r)
  \/ \E r \in Requests : CacheSet(r)
  \/ \E r \in Requests : Respond(r)
  \/ \E r \in Requests : RespondError(r)
  \/ Tick

Spec == Init /\ [][Next]_vars

\* The steps of the handler of request r once it has been received.
RequestStep(r) ==
  \/ CacheGet(r)
  \/ AuxFetch(r)
  \/ RetryAuxFetch(r)
  \/ PrimaryFetch(r)
  \/ FallbackFetch(r)
  \/ CacheSet(r)
  \/ Respond(r)
  \/ RespondError(r)

\* Every await of a handler eventually settles: the outbound call or the
\* cache operation returns or fails, and the handler goes on.
\* The clock of the store stands still here: whether a lookup hits or
\* misses then depends on the writes of the other request only.
FairNext ==
  \/ \E r \in Requests, id \in Ids : Receive(r, id)
  \/ \E r \in Requests : RequestStep(r)

FairSpec ==
  /\ Init
  /\ [][FairNext]_vars
  /\ \A r \in Requests : WF_vars(RequestStep(r))


\* ------------------------------------------------------------------------
\* Properties of findEpisodeData (checked under MergeSpec)
\* ------------------------------------------------------------------------
NonNull(v) == v # Null /\ v # Undefined

\* The call has been made and has returned a list.
Merged == m.called \in {"withImages", "withoutImages"} /\ ~m.result.threw

\* The records of the image source the call looks into.
ImageSourceRecords ==
  LET images == IF m.called = "withImages" THEN GivenImages(m.episodeImages) ELSE NoImages
      b == ImageBundleIndex(images)
  IN IF b = 0 THEN <<>> ELSE images.list[b].data

\* The field of the first record carrying number n, Null when no record does.
FieldFor(records, n, field) ==
  LET hits == {i \in 1..Len(records) : records[i].number = n}
  IN IF hits = {} THEN Null
     ELSE records[CHOOSE i \in hits : \A j \in hits : i <= j][field]

IsPlaceholder(title) ==
  \/ title \in {Null, Undefined, ""}
  \/ Len(title) >= 2 /\ SubSeq(title, 1, 2) = "EP"

FirstNonNull2(a, b) == IF NonNull(a) THEN a ELSE b
FirstNonNull3(a, b, c) == IF NonNull(a) THEN a ELSE FirstNonNull2(b, c)
FirstNonNull4(a, b, c, d) == IF NonNull(a) THEN a ELSE FirstNonNull3(b, c, d)

ExpectedOrdinal(n) ==
  CASE n = 1 -> "1st" [] n = 2 -> "2nd" [] n = 3 -> "3rd" [] OTHER -> ToString(n) \o "th"

HasPrefix(s, prefix) == Len(s) >= Len(prefix) /\ SubSeq(s, 1, Len(prefix)) = prefix

\* C5: an episode whose raw title is non-empty and does not start with "EP"
\* keeps its raw title, whatever the image-source record, the metadata
\* record and the episode number are.
RawTitleKept ==
  Merged =>
    \A i \in 1..Len(m.episodes) :
      ~IsPlaceholder(m.episodes[i].title) =>
        m.result.value[i].title = m.episodes[i].title

RawTitleKeptWitness ==
  /\ Merged
  /\ m.called = "withImages"
  /\ Len(m.episodes) = 1
  /\ m.episodes[1].title = "The Beginning"
  /\ NonNull(FieldFor(ImageSourceRecords, m.episodes[1].number, "title"))
  /\ m.metadata.hasMetadatas
  /\ NonNull(FieldFor(m.metadata.metadatas, m.episodes[1].number, "title"))
  /\ m.result.value[1].title = "The Beginning"

\* C6: an episode whose raw title is empty or starts with "EP" gets the
\* title of the matching image-source record if non-null, otherwise the
\* title of the matching metadata record if non-null, otherwise "Episode N".
PlaceholderTitleResolved ==
  Merged =>
    \A i \in 1..Len(m.episodes) :
      LET e == m.episodes[i] IN
      IsPlaceholder(e.title) =>
        m.result.value[i].title =
          FirstNonNull3(FieldFor(ImageSourceRecords, e.number, "title"),
                        FieldFor(m.metadata.metadatas, e.number, "title"),
                        "Episode " \o ToString(e.number))

PlaceholderTitleWitness ==
  /\ Merged
  /\ m.called = "withImages"
  /\ Len(m.episodes) = 1
  /\ m.episodes[1].title = "EP1"
  /\ FieldFor(ImageSourceRecords, m.episodes[1].number, "title") = "Premiere"
  /\ m.metadata = Metadata(<<>>)
  /\ m.result.value[1].title = "Premiere"

\* C7: the output img is the first non-null of the img of the image-source
\* record with the episode's number, the thumbnail of the metadata record
\* with the episode's number, the info's coverImage, the raw episode's img.
ImageResolved ==
  Merged =>
    \A i \in 1..Len(m.episodes) :
      LET e == m.episodes[i] IN
      m.result.value[i].img =
        FirstNonNull4(FieldFor(ImageSourceRecords, e.number, "img"),
                      FieldFor(m.metadata.metadatas, e.number, "thumbnail"),
                      m.information.coverImage,
                      e.img)

ImageResolvedWitness ==
  /\ Merged
  /\ m.called = "withImages"
  /\ Len(m.episodes) = 1
  /\ ImageSourceRecords # <<>>
  /\ FieldFor(ImageSourceRecords, m.episodes[1].number, "img") = Null
  /\ NonNull(FieldFor(m.metadata.metadatas, m.episodes[1].number, "thumbnail"))
  /\ NonNull(m.information.coverImage)
  /\ NonNull(m.episodes[1].img)
  /\ m.result.value[1].img = "thumb.png"

\* C8: the output description is the raw description if non-null, otherwise
\* the description of the matching image-source record if non-null,
\* otherwise "<ordinal> Episode of <T>", T the first non-null of the info's
\* English, Romaji and Native titles.
DescriptionResolved ==
  Merged =>
    \A i \in 1..Len(m.episodes) :
      LET e == m.episodes[i]
          fromImage == FieldFor(ImageSourceRecords, e.number, "description")
          t == m.information.title
          out == m.result.value[i].description
      IN /\ NonNull(e.description) => out = e.description
         /\ ~NonNull(e.description) /\ NonNull(fromImage) => out = fromImage
         /\ (/\ ~NonNull(e.description)
             /\ ~NonNull(fromImage)
             /\ \E lang \in {"english", "romaji", "native"} : NonNull(t[lang]))
              => out = ExpectedOrdinal(e.number) \o " Episode of "
                         \o FirstNonNull3(t.english, t.romaji, t.native)

DescriptionResolvedWitness ==
  /\ Merged
  /\ m.called = "withImages"
  /\ Len(m.episodes) = 1
  /\ m.episodes[1].description = Null
  /\ ImageSourceRecords # <<>>
  /\ m.information.title.english = Null
  /\ m.result.value[1].description = "2nd Episode of Romaji"

\* C9: the ordinal of a synthesized description is "1st", "2nd", "3rd" for
\* 1, 2, 3 and n followed by "th" for every other n (11 gives "11th"), in
\* the merge with images, the merge without images and the catch block.
OrdinalOfDescription ==
  (m.called \in {"withImages", "withoutImages", "catchBlock"} /\ ~m.result.threw) =>
    \A i \in 1..Len(m.episodes) :
      LET e == m.episodes[i]
          fromImage == IF m.called = "catchBlock" THEN Null
                       ELSE FieldFor(ImageSourceRecords, e.number, "description")
      IN (~NonNull(e.description) /\ ~NonNull(fromImage)) =>
           HasPrefix(m.result.value[i].description,
                     ExpectedOrdinal(e.number) \o " Episode of ")

OrdinalWitness ==
  /\ m.called = "catchBlock"
  /\ ~m.result.threw
  /\ Len(m.episodes) = 1
  /\ m.episodes[1].number = 11
  /\ m.episodes[1].description = Null
  /\ HasPrefix(m.result.value[1].description, "11th Episode of ")


\* ------------------------------------------------------------------------
\* Properties of GET and getOrSetCache (checked under Spec)
\* ------------------------------------------------------------------------
Done(r) == req[r].pc = "done"

GenericError == [status |-> 500, body |-> JSONstringify(ErrorObject)]

BundleListResponse(bundles) == [status |-> 200, body |-> JSONstringify(Array(bundles))]

\* What a call of the step returned to the handler.
CallReturned(outcome) == outcome \in {"shapeThrew", "mergeThrew", "merged"}

\* C1: when the auxiliary fetches of a pass succeeded and both the primary
\* and the fallback provider call of that pass failed, the response is
\* HTTP 500 with the body {message: 'Internal Server Error', status: 500}.
BothProvidersFail500 ==
  \A r \in Requests :
    (/\ Done(r)
     /\ \E p \in Passes : /\ req[r].aux[p] = "fetched"
                          /\ req[r].primary[p] = "callThrew"
                          /\ req[r].fallback[p] = "callThrew")
      => req[r].response = GenericError

\* C2: a request served from a cached entry contacts no external service,
\* writes nothing to the cache and returns the JSON that the request that
\* filled the entry returned.
ExternalCalls(r) ==
  req[r].calls.images + req[r].calls.metadata + req[r].calls.info
    + req[r].calls.primary + req[r].calls.fallback

CacheHitServedFromCache ==
  \A r \in Requests :
    req[r].hit =>
      /\ ExternalCalls(r) = 0
      /\ req[r].calls.cacheSet = 0
      /\ req[r].pc \in {"respond", "done"}
      /\ (Done(r) /\ req[r].fillerResponse # NoResponse)
           => /\ req[r].response.body = req[r].fillerResponse.body
              /\ req[r].response.status = req[r].fillerResponse.status

CacheHitWitness ==
  \E r \in Requests :
    /\ Done(r)
    /\ req[r].hit
    /\ req[r].fillerResponse # NoResponse
    /\ req[r].response.body = req[r].fillerResponse.body
    /\ req[r].response.body.kind = "array"
    /\ \E i \in 1..Len(req[r].response.body.items) :
         \E j \in 1..Len(req[r].response.body.items[i].episodes) :
           "img" \notin DOMAIN req[r].response.body.items[i].episodes[j]

\* The bundle the fallback provider's episodes give in the pass the request
\* is in: converted, merged, under "anizone".
ExpectedFallbackBundles(r) ==
  LET merged == findEpisodeData(ConvertAll(req[r].consumetEpisodes),
                                req[r].episodeMetadata, req[r].information,
                                req[r].episodeImages)
  IN <<[episodes |-> merged.value, providerId |-> "anizone"]>>

ExpectedRetryBundles(r) ==
  LET q == req[r]
      Without(episodes) ==
        findEpisodeData(episodes, q.episodeMetadata, q.information, GivenImages(<<>>)).value
  IN IF q.primary[2] = "merged"
     THEN [i \in 1..Len(q.anifyEpisodes) |->
             [episodes |-> Without(q.anifyEpisodes[i].episodes),
              providerId |-> IF q.anifyEpisodes[i].providerId = "zoro"
                             THEN "anirise" ELSE "anizone"]]
     ELSE <<[episodes |-> Without(ConvertAll(q.consumetEpisodes)),
             providerId |-> "anizone"]>>

\* The retry pass re-fetches metadata and info and, once it has them, runs
\* the primary provider and, unless the primary's bundles were merged, the
\* fallback provider.
RetryRuns(r) ==
  /\ req[r].pass = 2
  /\ req[r].aux[2] # "none"
  /\ req[r].calls.images = 1 /\ req[r].calls.metadata = 2 /\ req[r].calls.info = 2
  /\ req[r].aux[2] = "fetched" =>
       /\ req[r].primary[2] # "none"
       /\ req[r].primary[2] # "merged" => req[r].fallback[2] # "none"

OwnKey(r) == "episodesData:" \o req[r].id

Writes(r) == req[r].pc = "cacheSet" /\ req'[r].pc = "respond"

OnlyOwnKeyFixedTtl ==
  /\ [](\A r \in Requests :
          /\ req[r].calls.cacheGet > 0 => req[r].getKey = OwnKey(r)
          /\ req[r].calls.cacheSet > 0 =>
               req[r].setKey = OwnKey(r) /\ req[r].setTtl = 18000)
  /\ [][ /\ \A r \in Requests :
              Writes(r) =>
                /\ OwnKey(r) \in DOMAIN cache'
                /\ cache'[OwnKey(r)].present
                /\ cache'[OwnKey(r)].expires = now + 18000
                /\ \A k \in (DOMAIN cache') \ {OwnKey(r)} : cache'[k] = cache[k]
         /\ (cache' # cache) => (now' # now \/ \E r \in Requests : Writes(r)) ]_vars

OwnKeyWitness ==
  /\ \A id \in Ids : cache["episodesData:" \o id].present
  /\ cache["episodesData:1"].writer # cache["episodesData:21"].writer
  /\ cache["episodesData:1"].expires # cache["episodesData:21"].expires
  /\ \A r \in Requests : Done(r) /\ req[r].setTtl = 18000


\* The events of kind e in the trace of request r, as indices.
EventsOf(r, e) == {i \in 1..Len(req[r].trace) : req[r].trace[i].e = e}
EventsIn(r, e, p) == {i \in EventsOf(r, e) : req[r].trace[i].pass = p}

FailedPrimaryAttemptBefore(t, i) ==
  /\ i > 1
  /\ t[i - 1].pass = t[i].pass
  /\ \/ t[i - 1].e = "primary" /\ ~t[i - 1].ok
     \/ /\ i > 2
        /\ t[i - 1].e = "merge" /\ ~t[i - 1].ok
        /\ t[i - 2].e = "primary" /\ t[i - 2].pass = t[i].pass

OutboundCalls(r) ==
  EventsOf(r, "aux") \cup EventsOf(r, "primary") \cup EventsOf(r, "fallback")

\* C12: in a request that missed the cache, the lookup comes before every
\* outbound call; a primary attempt comes right after the auxiliary fetches
\* of its pass, all successful; a fallback call comes right after a failed
\* primary attempt of its pass, and there is none in a pass whose primary
\* attempt succeeded; the cache write comes after every call and merge and
\* before the response, which is the last step.
StepOrder ==
  \A r \in Requests :
    LET t == req[r].trace IN
    /\ t # <<>> => t[1].e = "cacheGet" /\ EventsOf(r, "cacheGet") = {1}
    /\ req[r].calls.primary = Cardinality(EventsOf(r, "primary"))
    /\ req[r].calls.cacheSet = Cardinality(EventsOf(r, "cacheSet"))
    /\ \A i \in EventsOf(r, "primary") :
         /\ i > 1
         /\ t[i - 1] = Event("aux", t[i].pass, TRUE)
         /\ req[r].aux[t[i].pass] = "fetched"
    /\ \A i \in EventsOf(r, "fallback") : FailedPrimaryAttemptBefore(t, i)
    /\ \A p \in Passes :
         req[r].primary[p] = "merged" => EventsIn(r, "fallback", p) = {}
    /\ \A i \in EventsOf(r, "cacheSet") :
         /\ \A j \in OutboundCalls(r) \cup EventsOf(r, "merge") : j < i
         /\ \A k \in EventsOf(r, "respond") : i < k
         /\ req[r].source \in {"primary", "fallback"} =>
              t[i - 1] = Event("merge", t[i].pass, TRUE)
    /\ \A k \in EventsOf(r, "respond") :
         /\ k = Len(t)
         /\ ~req[r].hit /\ t[k].ok => EventsOf(r, "cacheSet") = {k - 1}

\* A request that missed, went through the retry pass to the fallback
\* provider, wrote the merged bundles and responded.
StepOrderWitness ==
  \E r \in Requests :
    /\ Done(r) /\ ~req[r].hit
    /\ req[r].source = "fallback"
    /\ Len(req[r].trace) = 8
    /\ req[r].trace[2] = Event("aux", 1, FALSE)
    /\ req[r].trace[3] = Event("aux", 2, TRUE)
    /\ req[r].trace[4] = Event("primary", 2, FALSE)
    /\ req[r].trace[5] = Event("fallback", 2, TRUE)
    /\ req[r].trace[6] = Event("merge", 2, TRUE)
    /\ req[r].trace[7].e = "cacheSet"
    /\ req[r].trace[8].e = "respond"


\* The request r has stored nothing: it made no cache write and no entry
\* of the cache is of its writing.
WroteNothing(r) ==
  /\ req[r].calls.cacheSet = 0
  /\ EventsOf(r, "cacheSet") = {}
  /\ \A k \in Keys : cache[k].present => cache[k].writer # r

\* C13: when the auxiliary fetches (episode metadata, anime info) fail in
\* the first pass and fail again in the retry pass, the request ends with
\* HTTP 500 and the body {message: 'Internal Server Error', status: 500},
\* neither provider is contacted in the retry pass, and the request writes
\* nothing to the cache.
AuxFailsTwice500 ==
  \A r \in Requests :
    (req[r].aux[1] = "threw" /\ req[r].aux[2] = "threw") =>
      /\ req[r].pc \in {"fail", "done"}
      /\ Done(r) => req[r].response = GenericError /\ req[r].responses = 1
      /\ req[r].primary[2] = "none" /\ req[r].fallback[2] = "none"
      /\ EventsIn(r, "primary", 2) = {} /\ EventsIn(r, "fallback", 2) = {}
      /\ req[r].calls.primary = 0 /\ req[r].calls.fallback = 0
      /\ WroteNothing(r)

AuxFailsTwiceWitness ==
  \E r \in Requests :
    /\ Done(r)
    /\ req[r].aux[1] = "threw" /\ req[r].aux[2] = "threw"
    /\ req[r].calls.metadata = 2 /\ req[r].calls.info = 2
    /\ req[r].response = GenericError


\* The aggregation of request r ended in failure: both providers failed in
\* a pass, or the request ended in the catch of line 396.
AggregationFailed(r) ==
  \/ req[r].source = "error"
  \/ req[r].pc = "fail"
  \/ Done(r) /\ req[r].response = GenericError

\* C14: every value stored under a key episodesData:<id> is the
\* serialization of a list of provider bundles, and a request whose
\* aggregation ended in failure writes nothing to the cache, so that no
\* later request is served from an entry of its writing.
OnlyBundleListsStored ==
  /\ \A k \in Keys :
       cache[k].present =>
         /\ cache[k].value.kind = "array"
         /\ \A i \in 1..Len(cache[k].value.items) :
              DOMAIN cache[k].value.items[i] = {"episodes", "providerId"}
  /\ \A r \in Requests : AggregationFailed(r) => WroteNothing(r)
  /\ \A r \in Requests : req[r].hit => ~AggregationFailed(req[r].filler)


\* The request r looked into the cache and found nothing.
Missed(r) == req[r].calls.cacheGet = 1 /\ ~req[r].hit

\* The request r missed and its aggregation returned a value.
Aggregated(r) ==
  /\ Missed(r)
  /\ req[r].source # "none"
  /\ req[r].pc \in {"cacheSet", "respond", "done"}

\* C15: requests that missed the cache each run their own aggregation and
\* their own cache write, whatever another request for the same identifier
\* is doing or has stored meanwhile; each responds with its own fresh
\* value; and the entry holds the value of the write that happened last.
EachMissWritesOwn ==
  /\ [](\A r \in Requests :
          /\ Aggregated(r) =>
               /\ EventsOf(r, "aux") # {}
               /\ req[r].calls.metadata >= 1 /\ req[r].calls.info >= 1
               /\ req[r].filler = 0
          /\ Aggregated(r) /\ req[r].pc # "cacheSet" =>
               /\ req[r].calls.cacheSet = 1
               /\ req[r].cachedEpisodes = req[r].freshData
          /\ Aggregated(r) /\ Done(r) =>
               req[r].response = [status |-> 200,
                                  body |-> JSONstringify(req[r].freshData)])
  /\ [](\A k \in Keys :
          cache[k].present =>
            /\ OwnKey(cache[k].writer) = k
            /\ cache[k].value = JSONstringify(req[cache[k].writer].freshData))
  /\ [][ \A r \in Requests :
           Writes(r) =>
             /\ OwnKey(r) \in DOMAIN cache'
             /\ cache'[OwnKey(r)].present
             /\ cache'[OwnKey(r)].writer = r
             /\ cache'[OwnKey(r)].value = JSONstringify(req[r].freshData) ]_vars

\* Two requests for the same identifier overlapped (no time passed), both
\* missed, both wrote, their values differ, and the entry is the later one's.
OverlappingMissesWitness ==
  /\ \A r \in Requests : Done(r) /\ Missed(r) /\ req[r].calls.cacheSet = 1
  /\ req[1].id = req[2].id
  /\ now = 0
  /\ req[1].freshData # req[2].freshData
  /\ req[1].response # req[2].response
  /\ cache[OwnKey(1)].present
  /\ cache[OwnKey(1)].writer = 2
  /\ req[2].trace[1] = Event("cacheGet", 0, TRUE)
  /\ cache[OwnKey(1)].value = JSONstringify(req[2].freshData)


\* No bundle of the image source given to the call has a record for the
\* number of any episode of the list.
NoImageRecordForAnyEpisode ==
  \A b \in 1..Len(m.episodeImages) :
    \A k \in 1..Len(m.episodeImages[b].data) :
      \A i \in 1..Len(m.episodes) :
        m.episodeImages[b].data[k].number # m.episodes[i].number

\* C16: on the same episode list, metadata and info, the call without an
\* image source, the catch block, and the call with an image source that
\* has no record for any episode number give the same result.
MergeWithoutImagesIsCatchBlock ==
  LET catch == CatchBlock(m.episodes, m.metadata, m.information)
      without == findEpisodeData(m.episodes, m.metadata, m.information, NoImages)
  IN /\ m.called = "withoutImages" => m.result = catch
     /\ m.called = "catchBlock" => m.result = without
     /\ (m.called = "withImages" /\ NoImageRecordForAnyEpisode) =>
          m.result = catch /\ m.result = without

\* A call with an image source holding records, none for the numbers of
\* the two episodes of the list, that returned what the catch block gives.
MergeWithoutImagesWitness ==
  /\ m.called = "withImages"
  /\ NoImageRecordForAnyEpisode
  /\ Len(m.episodes) = 2
  /\ \E b \in 1..Len(m.episodeImages) : m.episodeImages[b].data # <<>>
  /\ ~m.result.threw
  /\ m.result = CatchBlock(m.episodes, m.metadata, m.information)
  /\ \E i \in 1..2 : NonNull(m.result.value[i].img)


\* The bundle the image record is to be looked up in: the first 'tvdb'
\* bundle of the list when there is one, the first bundle otherwise.
TvdbOrFirst(list) ==
  LET tvdb == {i \in 1..Len(list) : list[i].providerId = "tvdb"}
  IN IF tvdb # {} THEN <<list[CHOOSE i \in tvdb : \A j \in tvdb : i <= j]>>
     ELSE IF list # <<>> THEN <<list[1]>>
     ELSE <<>>

\* C17: the call with an image source returns what it returns when given
\* only the 'tvdb' bundle of the list, or only the first bundle when the
\* list has no 'tvdb' bundle.
ImageLookedUpInTvdb ==
  m.called = "withImages" =>
    m.result = findEpisodeData(m.episodes, m.metadata, m.information,
                               GivenImages(TvdbOrFirst(m.episodeImages)))


ResultProviderIds == {"anirise", "anizone"}

\* The response of request r is a successful one carrying a bundle list.
RespondedBundles(r) ==
  Done(r) /\ req[r].response.status = 200 /\ req[r].response.body.kind = "array"

\* C18: a result built on the primary path has one bundle for each bundle
\* of the primary response, in the same order, with providerId 'anirise'
\* for the source providerId 'zoro' and 'anizone' for any other; and every
\* bundle of every successful response has providerId 'anirise' or
\* 'anizone'.
OneBundlePerPrimaryBundle ==
  \A r \in Requests :
    /\ req[r].source = "primary" =>
         LET bundles == req[r].freshData.items
             anify == req[r].anifyEpisodes
         IN /\ Len(bundles) = Len(anify)
            /\ \A i \in 1..Len(anify) :
                 /\ bundles[i].providerId =
                      (IF anify[i].providerId = "zoro" THEN "anirise" ELSE "anizone")
                 /\ Len(bundles[i].episodes) = Len(anify[i].episodes)
                 /\ \A j \in 1..Len(anify[i].episodes) :
                      bundles[i].episodes[j].id = anify[i].episodes[j].id
            /\ Done(r) =>
                 /\ RespondedBundles(r)
                 /\ Len(req[r].response.body.items) = Len(anify)
                 /\ \A i \in 1..Len(anify) :
                      req[r].response.body.items[i].providerId = bundles[i].providerId
    /\ RespondedBundles(r) =>
         \A i \in 1..Len(req[r].response.body.items) :
           req[r].response.body.items[i].providerId \in ResultProviderIds

\* A finished request answered from the primary provider: a 'zoro' bundle
\* and a bundle of another provider, returned as 'anirise' and 'anizone'.
PrimaryBundlesWitness ==
  \E r \in Requests :
    /\ RespondedBundles(r)
    /\ req[r].source = "primary"
    /\ Len(req[r].anifyEpisodes) = 2
    /\ req[r].anifyEpisodes[1].providerId = "zoro"
    /\ req[r].anifyEpisodes[2].providerId \notin {"zoro", "anizone", "anirise"}
    /\ req[r].response.body.items[1].providerId = "anirise"
    /\ req[r].response.body.items[2].providerId = "anizone"


EpisodeFields == {"id", "img", "title", "description", "number"}

\* C19: whatever the path (with image source, without, catch block), a
\* result that is returned has the length of the raw episode list, its
\* i-th episode has the id and the number of the i-th raw episode, and
\* each episode has exactly the fields id, img, title, description, number.
EpisodeListPreserved ==
  (m.called \in {"withImages", "withoutImages", "catchBlock"} /\ ~m.result.threw) =>
    /\ Len(m.result.value) = Len(m.episodes)
    /\ \A i \in 1..Len(m.episodes) :
         /\ DOMAIN m.result.value[i] = EpisodeFields
         /\ m.result.value[i].id = m.episodes[i].id
         /\ m.result.value[i].number = m.episodes[i].number

\* A call on two episodes with different ids and numbers, an image record
\* and a metadata record for the second only, that returned.
EpisodeListPreservedWitness ==
  /\ m.called = "withImages" /\ ~m.result.threw
  /\ Len(m.episodes) = 2
  /\ m.episodes[1].id # m.episodes[2].id
  /\ m.episodes[1].number # m.episodes[2].number
  /\ Len(m.result.value) = 2
  /\ m.result.value[2].id = m.episodes[2].id
  /\ FoundMetadata(m.episodes[2], m.metadata).found
  /\ ~FoundMetadata(m.episodes[1], m.metadata).found


\* C20: a request that has been received eventually produces a response,
\* exactly one, and takes at most two passes to do so.
EveryRequestResponds ==
  /\ \A r \in Requests : (req[r].pc = "cacheGet") ~> Done(r)
  /\ [](\A r \in Requests :
          /\ req[r].pass \in 0..2
          /\ \A p \in Passes : Cardinality(EventsIn(r, "aux", p)) <= 1
          /\ req[r].responses = Cardinality(EventsOf(r, "respond"))
          /\ req[r].responses = (IF Done(r) THEN 1 ELSE 0)
          /\ Done(r) => req[r].response # NoResponse)
  /\ [][\A r \in Requests :
          Done(r) => /\ req'[r].pc = "done"
                     /\ req'[r].response = req[r].response
                     /\ req'[r].responses = req[r].responses]_vars

\* A request that went through both passes and responded.
TwoPassesWitness ==
  \E r \in Requests :
    /\ Done(r)
    /\ req[r].pass = 2
    /\ req[r].responses = 1
    /\ req[r].calls.primary = 2
    /\ req[r].response.status = 200

====
